---- MODULE Spec2Model ----
(***************************************************************************)
(* Model of the user-space TCP connection engine of src/src/tcp.rs:        *)
(* the wraparound comparator is_between_wrapped, Connection::accept,       *)
(* Connection::write, Connection::send_rst and Connection::on_packet.      *)
(*                                                                         *)
(* Sequence numbers are u32 in the source.  The model keeps the modular    *)
(* arithmetic (wrapping_add / wrapping_sub) but on a ring of SeqSpace      *)
(* values, so that every wrap-around case is enumerated.                   *)
(***************************************************************************)
EXTENDS Integers, Sequences, FiniteSets, TLC

\* ---------------------------------------------------------------- bounds
\* Size of the sequence-number ring (2^32 in the source).
SeqSpace == 5
\* Largest receive window a peer advertises in its SYN (u16 in the source).
MaxWnd == 2
\* Largest payload length of an inbound segment.
MaxPayload == 1
\* Most sequence numbers a connection transmits before the model stops
\* following it (a handshake and close transmit three).
MaxSent == 3

\* ------------------------------------------------------ program constants
\* accept: let iss = 0;
iss == 0
\* accept: let wnd = 10;
wnd == 10

SeqNums == 0 .. (SeqSpace - 1)
\* Sequence numbers a peer puts on its SYN: an ordinary one and the largest.
PeerSeqs == {1, SeqSpace - 1}

\* u32::wrapping_add / u32::wrapping_sub on the ring.
wrapping_add(a, b) == (a + b) % SeqSpace
wrapping_sub(a, b) == (a - b + SeqSpace) % SeqSpace

\* --------------------------------------------------------------- State
SynRcvd == "SynRcvd"
Estab == "Estab"
FinWait1 == "FinWait1"
FinWait2 == "FinWait2"
TimeWait == "TimeWait"
\* Option<Connection>::None: accept has not (yet) returned a connection.
NoConnection == "None"

State == {SynRcvd, Estab, FinWait1, FinWait2, TimeWait}

\* ------------------------------------------------- wraparound comparator
\* The comparator with the Equal arm answering true (boundary included).
is_between_wrapped_incl(start, x, end) ==
    IF start = x THEN TRUE
    ELSE IF start < x
         THEN ~(end >= start /\ end <= x)
         ELSE (end < start /\ end > x)

\* fn is_between_wrapped(start: u32, x: u32, end: u32) -> bool
is_between_wrapped(start, x, end) ==
    IF start = x THEN FALSE
    ELSE IF start < x
         THEN IF end >= start /\ end <= x THEN FALSE ELSE TRUE
         ELSE IF end < start /\ end > x THEN TRUE ELSE FALSE

\* ------------------------------------------------------------ variables
VARIABLES
    state,   \* Connection.state, or NoConnection before accept succeeds
    send,    \* Connection.send : SendSequenceSpace (una, nxt, wnd, iss)
    recv,    \* Connection.recv : RecvSequenceSpace (nxt, wnd, irs)
    tcp,     \* Connection.tcp  : flags of the outgoing header template
    op,      \* the entry point called last
    seg,     \* the inbound segment handed to that call
    pre,     \* the connection as it was when that call started
    exit,    \* where that call returned (or panicked)
    out,     \* the segments that call handed to the device, in order
    path,    \* the values Connection.state took during that call
    sent,    \* sequence numbers carried by all segments transmitted so far
    lost,    \* the segment of that call the device refused, if any
    fin_handled, \* the peer-FIN step has moved FinWait2 back to FinWait1
    wrapped, \* send.nxt has wrapped past the end of the ring
    handled_before, \* fin_handled as it was when that call started
    cmp      \* inputs and result of a stand-alone is_between_wrapped call

vars ==
    <<state, send, recv, tcp, op, seg, pre, exit, out, path, sent, lost,
      fin_handled, wrapped, handled_before, cmp>>

\* The fields of Connection as one record (ip holds addresses only).
Conn == [state |-> state, send |-> send, recv |-> recv, tcp |-> tcp]

NoSend == [una |-> 0, nxt |-> 0, wnd |-> 0, iss |-> 0]
NoRecv == [nxt |-> 0, wnd |-> 0, irs |-> 0]
NoTcp == [syn |-> FALSE, ack |-> FALSE, fin |-> FALSE, rst |-> FALSE]
NoSeg == [seqn |-> 0, ackn |-> 0, syn |-> FALSE, fin |-> FALSE, len |-> 0, wnd |-> 0]
NoCmp == [start |-> 0, x |-> 0, end |-> 0, called |-> FALSE, result |-> FALSE]
NoConn == [state |-> NoConnection, send |-> NoSend, recv |-> NoRecv, tcp |-> NoTcp]

\* How a call ends.  Running: still executing.
Running == "running"
\* accept: Ok(None), the segment carried no SYN.
ExitNone == "ok_none"
\* accept: Ok(Some(c)); on_packet, send_rst: Ok(()) at the end of the body.
ExitOk == "ok"
\* on_packet: return Ok(()) in the acceptance test (lines 218, 221, 225, 233).
ExitRejected == "ok_rejected"
\* on_packet: return Ok(()) in the ACK validity gate (line 268).
ExitAckDrop == "ok_ack_drop"
\* write: nic.send(..)? failed, the io::Error is returned to the caller.
ExitIoError == "err_io"
\* accept: sequence_number() + 1 overflowed in a build with overflow checks.
ExitOverflow == "panic_overflow"
\* on_packet: assert!(data.is_empty()) failed.
ExitAssert == "panic_assert"
\* on_packet: unreachable!() executed.
ExitUnreachable == "panic_unreachable"

Panics == {ExitOverflow, ExitAssert, ExitUnreachable}

\* ------------------------------------------------------------------ write
\* write without the stamping of lines 154-155: the header goes out with
\* the sequence and acknowledgment numbers it already held.
write_unstamped(m, payload_len, nic_ok) ==
    LET hdr == [seq |-> m.sequence_number, ack |-> m.acknowledgment_number,
                syn |-> m.tcp.syn, ackf |-> m.tcp.ack,
                fin |-> m.tcp.fin, rst |-> m.tcp.rst, len |-> payload_len]
        nxt1 == wrapping_add(m.send.nxt, payload_len)
        nxt2 == IF m.tcp.syn THEN wrapping_add(nxt1, 1) ELSE nxt1
        nxt3 == IF m.tcp.fin THEN wrapping_add(nxt2, 1) ELSE nxt2
        m1 == [m EXCEPT !.send.nxt = nxt3, !.tcp.syn = FALSE, !.tcp.fin = FALSE]
    IN  IF nic_ok
        THEN [m1 EXCEPT !.out = Append(@, hdr)]
        ELSE [m1 EXCEPT !.exit = ExitIoError, !.lost = <<hdr>>]

\* write that leaves tcp.fin set after the segment is composed.
write_keep_fin(m, payload_len, nic_ok) ==
    LET hdr == [seq |-> m.send.nxt, ack |-> m.recv.nxt,
                syn |-> m.tcp.syn, ackf |-> m.tcp.ack,
                fin |-> m.tcp.fin, rst |-> m.tcp.rst, len |-> payload_len]
        nxt1 == wrapping_add(m.send.nxt, payload_len)
        nxt2 == IF m.tcp.syn THEN wrapping_add(nxt1, 1) ELSE nxt1
        nxt3 == IF m.tcp.fin THEN wrapping_add(nxt2, 1) ELSE nxt2
        m1 == [m EXCEPT !.send.nxt = nxt3, !.tcp.syn = FALSE]
    IN  IF nic_ok
        THEN [m1 EXCEPT !.out = Append(@, hdr)]
        ELSE [m1 EXCEPT !.exit = ExitIoError, !.lost = <<hdr>>]

\* write that advances send.nxt and clears the flags only once nic.send
\* has succeeded.
write_rollback(m, payload_len, nic_ok) ==
    LET hdr == [seq |-> m.send.nxt, ack |-> m.recv.nxt,
                syn |-> m.tcp.syn, ackf |-> m.tcp.ack,
                fin |-> m.tcp.fin, rst |-> m.tcp.rst, len |-> payload_len]
        nxt1 == wrapping_add(m.send.nxt, payload_len)
        nxt2 == IF m.tcp.syn THEN wrapping_add(nxt1, 1) ELSE nxt1
        nxt3 == IF m.tcp.fin THEN wrapping_add(nxt2, 1) ELSE nxt2
        m1 == [m EXCEPT !.send.nxt = nxt3, !.tcp.syn = FALSE, !.tcp.fin = FALSE]
    IN  IF nic_ok
        THEN [m1 EXCEPT !.out = Append(@, hdr)]
        ELSE [m EXCEPT !.exit = ExitIoError, !.lost = <<hdr>>]

\* Connection::write with a payload of payload_len bytes (every caller
\* passes &[]).  m carries the connection, the segments sent so far and the
\* exit; nic_ok says whether nic.send succeeds.
\* The transmitted segment is recorded with the header fields as serialised.
write(m, payload_len, nic_ok) ==
    LET m0 == [m EXCEPT !.sequence_number = m.send.nxt,
                        !.acknowledgment_number = m.recv.nxt]
        hdr == [seq |-> m0.sequence_number, ack |-> m0.acknowledgment_number,
                syn |-> m.tcp.syn, ackf |-> m.tcp.ack,
                fin |-> m.tcp.fin, rst |-> m.tcp.rst, len |-> payload_len]
        nxt1 == wrapping_add(m.send.nxt, payload_len)
        nxt2 == IF m.tcp.syn THEN wrapping_add(nxt1, 1) ELSE nxt1
        nxt3 == IF m.tcp.fin THEN wrapping_add(nxt2, 1) ELSE nxt2
        m1 == [m0 EXCEPT !.send.nxt = nxt3, !.tcp.syn = FALSE, !.tcp.fin = FALSE]
    IN  IF nic_ok
        THEN [m1 EXCEPT !.out = Append(@, hdr)]
        ELSE [m1 EXCEPT !.exit = ExitIoError, !.lost = <<hdr>>]

\* nic.send for the next segment of a call: fail_at = k makes the k-th
\* send of the call fail, fail_at = 0 makes none fail.
nic_send_ok(m, fail_at) == fail_at # Len(m.out) + 1

\* An entry of a call's path: the state with send.una and send.nxt as they
\* were when the state was assigned.
path_entry(s, snd) == [state |-> s, una |-> snd.una, nxt |-> snd.nxt]

\* self.state = s, recorded on the path of the call.
set_state(m, s) ==
    [m EXCEPT !.state = s, !.path = Append(@, path_entry(s, m.send))]

\* A call starting on connection c.  tcp.sequence_number and
\* tcp.acknowledgment_number are carried through the call only: write
\* assigns both before the header is serialised and nothing reads them
\* between calls.
start_call(c) ==
    [state |-> c.state, send |-> c.send, recv |-> c.recv, tcp |-> c.tcp,
     sequence_number |-> 0, acknowledgment_number |-> 0,
     out |-> <<>>, lost |-> <<>>, exit |-> Running,
     path |-> <<path_entry(c.state, c.send)>>]

\* ----------------------------------------------------------------- accept
\* Connection::accept for a segment sg; overflow_checks is the build's
\* setting for arithmetic overflow (`sequence_number() + 1` is a plain +:
\* it panics with the checks on and wraps with them off).
\* The result is the call record; its state is NoConnection unless
\* Ok(Some(c)) is returned.
accept(sg, overflow_checks, fail_at) ==
    LET none == start_call(NoConn)
        snd == [una |-> iss, nxt |-> iss + 1, wnd |-> wnd, iss |-> iss]
        c == [none EXCEPT
                !.state = SynRcvd,
                !.path = Append(@, path_entry(SynRcvd, snd)),
                !.send = snd,
                !.recv = [nxt |-> wrapping_add(sg.seqn, 1), wnd |-> sg.wnd,
                          irs |-> sg.seqn],
                !.tcp = [syn |-> TRUE, ack |-> TRUE, fin |-> FALSE, rst |-> FALSE]]
        w == write(c, 0, nic_send_ok(c, fail_at))
    IN  IF ~sg.syn
        THEN [none EXCEPT !.exit = ExitNone]
        ELSE IF overflow_checks /\ sg.seqn + 1 > SeqSpace - 1
        THEN [none EXCEPT !.exit = ExitOverflow]
        ELSE IF w.exit = ExitIoError
        THEN [none EXCEPT !.exit = ExitIoError, !.lost = w.lost]
        ELSE [w EXCEPT !.exit = ExitOk]

\* --------------------------------------------------------------- send_rst
\* Connection::send_rst: sets tcp.rst, zeroes the header's sequence and
\* acknowledgment numbers, then calls write (which stamps them again).
send_rst(c, fail_at) ==
    LET m == start_call(c)
        m1 == [m EXCEPT !.tcp.rst = TRUE,
                        !.sequence_number = 0,
                        !.acknowledgment_number = 0]
        w == write(m1, 0, nic_send_ok(m1, fail_at))
    IN  IF w.exit = ExitIoError THEN w ELSE [w EXCEPT !.exit = ExitOk]

\* -------------------------------------------------------------- on_packet
\* slen: data.len() plus one for FIN plus one for SYN (lines 206-212).
seg_len(sg) ==
    sg.len + (IF sg.fin THEN 1 ELSE 0) + (IF sg.syn THEN 1 ELSE 0)

\* The acceptance test with a zero window admitting a data segment that
\* starts exactly at recv.nxt.
segment_acceptable_zero_wnd(rcv, sg) ==
    LET seqn == sg.seqn
        slen == seg_len(sg)
        wend == wrapping_add(rcv.nxt, rcv.wnd)
    IN  IF rcv.wnd = 0
        THEN seqn = rcv.nxt
        ELSE \/ is_between_wrapped(wrapping_sub(rcv.nxt, 1), seqn, wend)
             \/ /\ slen > 0
                /\ is_between_wrapped(wrapping_sub(rcv.nxt, 1),
                                      wrapping_add(seqn, slen - 1), wend)

\* The acceptance test of on_packet (lines 213-235): TRUE when none of the
\* four `return Ok(())` is taken.
segment_acceptable(rcv, sg) ==
    LET seqn == sg.seqn
        slen == seg_len(sg)
        wend == wrapping_add(rcv.nxt, rcv.wnd)
    IN  IF slen = 0
        THEN IF rcv.wnd = 0
             THEN ~(seqn # rcv.nxt)
             ELSE is_between_wrapped(wrapping_sub(rcv.nxt, 1), seqn, wend)
        ELSE IF rcv.wnd = 0
             THEN FALSE
             ELSE ~(/\ ~is_between_wrapped(wrapping_sub(rcv.nxt, 1), seqn, wend)
                    /\ ~is_between_wrapped(wrapping_sub(rcv.nxt, 1),
                                           wrapping_add(seqn, slen - 1), wend))

\* The acceptance test assigning recv.nxt before it decides.
acceptance_test_late(m, sg) ==
    IF m.exit # Running THEN m
    ELSE IF segment_acceptable(m.recv, sg) THEN m
    ELSE [m EXCEPT !.exit = ExitRejected,
                   !.recv.nxt = wrapping_add(sg.seqn, seg_len(sg))]

\* Lines 204-235: return Ok(()) unless the segment is acceptable.
acceptance_test(m, sg) ==
    IF m.exit # Running THEN m
    ELSE IF segment_acceptable(m.recv, sg) THEN m
    ELSE [m EXCEPT !.exit = ExitRejected]

\* Line 237: self.recv.nxt = seqn.wrapping_add(slen).
advance_recv_nxt(m, sg) ==
    IF m.exit # Running THEN m
    ELSE [m EXCEPT !.recv.nxt = wrapping_add(sg.seqn, seg_len(sg))]

\* Lines 250-264: in SynRcvd, an ackn in (una - 1, nxt + 1) leads to Estab.
syn_rcvd_step(m, sg) ==
    IF m.exit # Running THEN m
    ELSE IF m.state = SynRcvd
         THEN IF is_between_wrapped(wrapping_sub(m.send.una, 1), sg.ackn,
                                    wrapping_add(m.send.nxt, 1))
              THEN set_state(m, Estab)
              ELSE m
         ELSE m

\* Lines 266-270: in Estab, FinWait1 and FinWait2, return Ok(()) unless
\* ackn is in (una, nxt + 1); otherwise send.una = ackn.
ack_gate(m, sg) ==
    IF m.exit # Running THEN m
    ELSE IF m.state \in {Estab, FinWait1, FinWait2}
         THEN IF ~is_between_wrapped(m.send.una, sg.ackn,
                                     wrapping_add(m.send.nxt, 1))
              THEN [m EXCEPT !.exit = ExitAckDrop]
              ELSE [m EXCEPT !.send.una = sg.ackn]
         ELSE m

\* The close step without the FIN flag on the transmitted segment.
estab_close_no_fin(m, sg, fail_at) ==
    IF m.exit # Running THEN m
    ELSE IF m.state = Estab
         THEN IF sg.len # 0
              THEN [m EXCEPT !.exit = ExitAssert]
              ELSE LET w == write(m, 0, nic_send_ok(m, fail_at))
                   IN  IF w.exit = ExitIoError THEN w
                       ELSE set_state(w, FinWait1)
         ELSE m

\* The close step without assert!(data.is_empty()).
estab_close_no_assert(m, sg, fail_at) ==
    IF m.exit # Running THEN m
    ELSE IF m.state = Estab
         THEN LET f == [m EXCEPT !.tcp.fin = TRUE]
                  w == write(f, 0, nic_send_ok(f, fail_at))
              IN  IF w.exit = ExitIoError THEN w
                  ELSE set_state(w, FinWait1)
         ELSE m

\* Lines 272-280: in Estab (after the gate), assert!(data.is_empty()),
\* set tcp.fin, write, and move to FinWait1.
estab_close(m, sg, fail_at) ==
    IF m.exit # Running THEN m
    ELSE IF m.state = Estab
         THEN IF sg.len # 0
              THEN [m EXCEPT !.exit = ExitAssert]
              ELSE LET f == [m EXCEPT !.tcp.fin = TRUE]
                       w == write(f, 0, nic_send_ok(f, fail_at))
                   IN  IF w.exit = ExitIoError THEN w
                       ELSE set_state(w, FinWait1)
         ELSE m

\* The FinWait1 step comparing with >= instead of ==.
fin_wait1_step_ge(m) ==
    IF m.exit # Running THEN m
    ELSE IF m.state = FinWait1 /\ m.send.una >= m.send.iss + 2
         THEN set_state(m, FinWait2)
         ELSE m

\* Lines 283-288: in FinWait1, send.una == send.iss + 2 leads to FinWait2.
fin_wait1_step(m) ==
    IF m.exit # Running THEN m
    ELSE IF m.state = FinWait1 /\ m.send.una = m.send.iss + 2
         THEN set_state(m, FinWait2)
         ELSE m

\* The peer-FIN step leading back to Estab.
peer_fin_estab(m, sg, fail_at) ==
    IF m.exit # Running THEN m
    ELSE IF sg.fin
         THEN IF m.state = FinWait2
              THEN LET f == [m EXCEPT !.tcp.fin = TRUE]
                       w == write(f, 0, nic_send_ok(f, fail_at))
                   IN  IF w.exit = ExitIoError THEN w
                       ELSE set_state(w, Estab)
              ELSE [m EXCEPT !.exit = ExitUnreachable]
         ELSE m

\* The peer-FIN step leading on to TimeWait.
peer_fin_time_wait(m, sg, fail_at) ==
    IF m.exit # Running THEN m
    ELSE IF sg.fin
         THEN IF m.state = FinWait2
              THEN LET f == [m EXCEPT !.tcp.fin = TRUE]
                       w == write(f, 0, nic_send_ok(f, fail_at))
                   IN  IF w.exit = ExitIoError THEN w
                       ELSE set_state(w, TimeWait)
              ELSE [m EXCEPT !.exit = ExitUnreachable]
         ELSE m

\* Lines 290-300: a segment with FIN: in FinWait2 set tcp.fin, write and
\* move to FinWait1; in any other state unreachable!().
peer_fin(m, sg, fail_at) ==
    IF m.exit # Running THEN m
    ELSE IF sg.fin
         THEN IF m.state = FinWait2
              THEN LET f == [m EXCEPT !.tcp.fin = TRUE]
                       w == write(f, 0, nic_send_ok(f, fail_at))
                   IN  IF w.exit = ExitIoError THEN w
                       ELSE set_state(w, FinWait1)
              ELSE [m EXCEPT !.exit = ExitUnreachable]
         ELSE m

\* The end of on_packet with the state assignment of the commented-out
\* block of lines 302-311 in force.
finish_time_wait(m) ==
    IF m.exit # Running THEN m
    ELSE IF m.state = FinWait2
         THEN [set_state(m, TimeWait) EXCEPT !.exit = ExitOk]
         ELSE [m EXCEPT !.exit = ExitOk]

\* Line 313: Ok(()).
finish(m) == IF m.exit # Running THEN m ELSE [m EXCEPT !.exit = ExitOk]

\* Connection::on_packet on connection c with segment sg.
on_packet(c, sg, fail_at) ==
    LET m0 == start_call(c)
        m1 == acceptance_test(m0, sg)
        m2 == advance_recv_nxt(m1, sg)
        m3 == syn_rcvd_step(m2, sg)
        m4 == ack_gate(m3, sg)
        m5 == estab_close(m4, sg, fail_at)
        m6 == fin_wait1_step(m5)
        m7 == peer_fin(m6, sg, fail_at)
    IN  finish(m7)

\* ------------------------------------------------------------ the inputs
\* Segments handed to accept: sequence number, SYN flag, advertised window.
AcceptSegments ==
    [seqn : PeerSeqs, ackn : {0}, syn : BOOLEAN, fin : {FALSE}, len : {0},
     wnd : 0 .. MaxWnd]

\* Segments handed to on_packet: sequence and acknowledgment number, SYN and
\* FIN flags, payload length (on_packet does not read the window).
PacketSegments ==
    [seqn : SeqNums, ackn : SeqNums, syn : BOOLEAN, fin : BOOLEAN,
     len : 0 .. MaxPayload, wnd : {0}]

\* on_packet sends at most two segments in a call.
FailAts == 0 .. 2

\* ---------------------------------------------------------------- actions
Init ==
    /\ state = NoConnection
    /\ send = NoSend
    /\ recv = NoRecv
    /\ tcp = NoTcp
    /\ op = "none"
    /\ seg = NoSeg
    /\ pre = NoConn
    /\ exit = ExitNone
    /\ out = <<>>
    /\ path = <<>>
    /\ sent = 0
    /\ lost = <<>>
    /\ fin_handled = FALSE
    /\ wrapped = FALSE
    /\ handled_before = FALSE
    /\ cmp = NoCmp

\* The sequence numbers the segments of sq occupy: payload length plus one
\* for SYN plus one for FIN, summed.
RECURSIVE seq_space_of(_)
seq_space_of(sq) ==
    IF sq = <<>> THEN 0
    ELSE sq[1].len + (IF sq[1].syn THEN 1 ELSE 0) + (IF sq[1].fin THEN 1 ELSE 0)
         + seq_space_of(Tail(sq))

\* The path p of a call ends with the peer-FIN step's FinWait2 -> FinWait1
\* (line 296; the only assignment that leaves FinWait2).
peer_fin_handled(p) ==
    /\ Len(p) >= 2
    /\ p[Len(p) - 1].state = FinWait2
    /\ p[Len(p)].state = FinWait1

\* The connection and the record of the call after a call returned r.
\* A call consumes at most two sequence numbers, fewer than the ring holds,
\* so send.nxt is numerically smaller afterwards exactly when it wrapped.
Returned(name, sg, r) ==
    /\ sent + seq_space_of(r.out) <= MaxSent
    /\ state' = r.state
    /\ send' = r.send
    /\ recv' = r.recv
    /\ tcp' = r.tcp
    /\ op' = name
    /\ seg' = sg
    /\ pre' = Conn
    /\ exit' = r.exit
    /\ out' = r.out
    /\ path' = r.path
    /\ sent' = sent + seq_space_of(r.out)
    /\ lost' = r.lost
    /\ fin_handled' = (fin_handled \/ peer_fin_handled(r.path))
    /\ wrapped' = (wrapped \/ r.send.nxt < send.nxt)
    /\ handled_before' = fin_handled
    /\ UNCHANGED cmp

\* The caller holds no finished call: it is about to call an entry point.
Idle == op = "none"

Accept ==
    /\ Idle
    /\ state = NoConnection
    /\ \E sg \in AcceptSegments, overflow_checks \in BOOLEAN, fail_at \in 0 .. 1 :
          Returned("accept", sg, accept(sg, overflow_checks, fail_at))

OnPacket ==
    /\ Idle
    /\ state # NoConnection
    /\ \E sg \in PacketSegments, fail_at \in FailAts :
          Returned("on_packet", sg, on_packet(Conn, sg, fail_at))

SendRst ==
    /\ Idle
    /\ state # NoConnection
    /\ \E fail_at \in 0 .. 1 :
          Returned("send_rst", NoSeg, send_rst(Conn, fail_at))

\* The caller drops the finished call's arguments and result and goes on to
\* the next frame; the connection is kept.  A panic ends the process: no
\* entry point is called after it.
NextFrame ==
    /\ ~Idle
    /\ exit \notin Panics
    /\ op' = "none"
    /\ seg' = NoSeg
    /\ pre' = NoConn
    /\ exit' = ExitNone
    /\ out' = <<>>
    /\ path' = <<>>
    /\ lost' = <<>>
    /\ handled_before' = FALSE
    /\ UNCHANGED <<state, send, recv, tcp, sent, fin_handled, wrapped, cmp>>

Next == Accept \/ OnPacket \/ SendRst \/ NextFrame

Spec == Init /\ [][Next]_vars

\* ------------------------------------- the comparator on its own inputs
InitCmp ==
    /\ state = NoConnection
    /\ send = NoSend
    /\ recv = NoRecv
    /\ tcp = NoTcp
    /\ op = "none"
    /\ seg = NoSeg
    /\ pre = NoConn
    /\ exit = ExitNone
    /\ out = <<>>
    /\ path = <<>>
    /\ sent = 0
    /\ lost = <<>>
    /\ fin_handled = FALSE
    /\ wrapped = FALSE
    /\ handled_before = FALSE
    /\ \E a \in SeqNums, b \in SeqNums, c \in SeqNums :
          cmp = [start |-> a, x |-> b, end |-> c, called |-> FALSE,
                 result |-> FALSE]

CallCmp ==
    /\ ~cmp.called
    /\ cmp' = [cmp EXCEPT !.called = TRUE,
                          !.result = is_between_wrapped(cmp.start, cmp.x, cmp.end)]
    /\ UNCHANGED <<state, send, recv, tcp, op, seg, pre, exit, out, path, sent,
                   lost, fin_handled, wrapped, handled_before>>

NextCmp == CallCmp

SpecCmp == InitCmp /\ [][NextCmp]_vars

\* ================================================================ claims
\* The states on the path of the last call, in order.
PathStates == [i \in 1 .. Len(path) |-> path[i].state]

\* x lies strictly inside the open circular interval (start, end):
\* 0 < (x - start) mod SeqSpace < (end - start) mod SeqSpace.
InOpenCircular(start, x, end) ==
    LET dx == (x - start + SeqSpace) % SeqSpace
        de == (end - start + SeqSpace) % SeqSpace
    IN  0 < dx /\ dx < de

\* C1: is_between_wrapped(start, x, end) is true exactly when x lies
\* strictly inside the open circular interval (start, end); it is false
\* whenever start = x; (100,150,200) and (100,250,50) give true and
\* (100,100,200) gives false.
C1_ComparatorMatchesRing ==
    cmp.called =>
        /\ cmp.result = InOpenCircular(cmp.start, cmp.x, cmp.end)
        /\ (cmp.start = cmp.x => ~cmp.result)
        /\ is_between_wrapped(100, 150, 200)
        /\ is_between_wrapped(100, 250, 50)
        /\ ~is_between_wrapped(100, 100, 200)

\* C1 witness: the comparator answered true for an interval that crosses
\* the end of the ring, with x after the wrap.
C1_Witness ==
    /\ cmp.called
    /\ cmp.result
    /\ cmp.end < cmp.start
    /\ cmp.x < cmp.end

\* s lies in the circular half-open interval [rcv.nxt, rcv.nxt + rcv.wnd).
InRecvWindow(rcv, s) == (s - rcv.nxt + SeqSpace) % SeqSpace < rcv.wnd

\* The four-case acceptance table.
AcceptanceTable(rcv, sg) ==
    LET slen == seg_len(sg)
        last == (sg.seqn + slen - 1) % SeqSpace
    IN  CASE slen = 0 /\ rcv.wnd = 0 -> sg.seqn = rcv.nxt
          [] slen = 0 /\ rcv.wnd > 0 -> InRecvWindow(rcv, sg.seqn)
          [] slen > 0 /\ rcv.wnd = 0 -> FALSE
          [] slen > 0 /\ rcv.wnd > 0 ->
                InRecvWindow(rcv, sg.seqn) \/ InRecvWindow(rcv, last)

\* C2: on_packet's acceptance decision follows the four-case table for
\* every recv.nxt, recv.wnd, seqn and slen.
C2_AcceptanceFollowsTable ==
    op = "on_packet" =>
        ((exit # ExitRejected) <=> AcceptanceTable(pre.recv, seg))

\* C2 witness: a data segment that starts before a window crossing the end
\* of the ring and ends inside it was accepted.
C2_Witness ==
    /\ op = "on_packet"
    /\ exit # ExitRejected
    /\ seg_len(seg) > 1
    /\ pre.recv.nxt + pre.recv.wnd > SeqSpace
    /\ ~InRecvWindow(pre.recv, seg.seqn)

\* C3: a segment rejected by the acceptance test leaves the connection
\* unchanged, transmits nothing, and on_packet returns Ok(()).
C3_RejectionChangesNothing ==
    (op = "on_packet" /\ ~AcceptanceTable(pre.recv, seg)) =>
        /\ Conn = pre
        /\ out = <<>>
        /\ exit = ExitRejected
        /\ PathStates = <<pre.state>>

\* C3 witness: a data segment was rejected by a connection with an open
\* window whose recv.nxt it did not match.
C3_Witness ==
    /\ op = "on_packet"
    /\ exit = ExitRejected
    /\ seg_len(seg) > 0
    /\ pre.recv.wnd > 0
    /\ seg.seqn # pre.recv.nxt
    /\ pre.state = FinWait1

\* C4: a segment that passes the acceptance test and fails the ACK validity
\* gate is discarded with no state change: state, send.una, send.nxt and
\* recv.nxt keep their values, nothing is transmitted, Ok(()) is returned.
C4_AckDropChangesNothing ==
    (op = "on_packet" /\ exit = ExitAckDrop) =>
        /\ state = pre.state
        /\ send.una = pre.send.una
        /\ send.nxt = pre.send.nxt
        /\ recv.nxt = pre.recv.nxt
        /\ out = <<>>

\* C5: for every accepted segment recv.nxt after the call is recv.nxt before
\* the call plus slen, and recv.nxt never changes otherwise.
C5_RecvNxtAdvancesBySlen ==
    op = "on_packet" =>
        IF exit # ExitRejected
        THEN recv.nxt = (pre.recv.nxt + seg_len(seg)) % SeqSpace
        ELSE recv.nxt = pre.recv.nxt

\* The number of outstanding sequence numbers.
Outstanding == (send.nxt - send.una + SeqSpace) % SeqSpace

\* C6: in every state reachable from accept by on_packet and send_rst calls,
\* send.una is circularly at or before send.nxt: send.una = send.nxt, or the
\* number of outstanding sequence numbers does not exceed what the engine
\* has actually sent.
C6_UnaAtOrBeforeNxt ==
    state # NoConnection =>
        (send.una = send.nxt \/ Outstanding <= sent)

\* C7: for every inbound SYN with sequence number s and window w whose
\* SYN+ACK the device takes, accept returns a connection in SynRcvd with
\* recv.irs = s, recv.nxt = s + 1 (modular), recv.wnd = w, send.una = iss,
\* and exactly one segment was transmitted, SYN+ACK with ack = s + 1.
C7_AcceptFromSyn ==
    (op = "accept" /\ seg.syn /\ exit # ExitIoError) =>
        /\ exit = ExitOk
        /\ state = SynRcvd
        /\ recv.irs = seg.seqn
        /\ recv.nxt = (seg.seqn + 1) % SeqSpace
        /\ recv.wnd = seg.wnd
        /\ send.una = iss
        /\ Len(out) = 1
        /\ out[1].syn /\ out[1].ackf
        /\ out[1].ack = (seg.seqn + 1) % SeqSpace

\* The last call delivered an acceptable empty segment without FIN whose
\* acknowledgment number is iss + 1 to a freshly accepted connection.
C8_Case ==
    /\ op = "on_packet"
    /\ pre.state = SynRcvd
    /\ pre.send.una = iss
    /\ seg_len(seg) = 0
    /\ ~seg.fin
    /\ exit # ExitRejected
    /\ seg.ackn = iss + 1

\* C8 as stated: in that case the state passes through Estab and ends in
\* FinWait1 within the call, and exactly one segment, carrying FIN, is
\* transmitted during the call.
C8_HandshakeAckClosesAlways ==
    C8_Case =>
        /\ PathStates = <<SynRcvd, Estab, FinWait1>>
        /\ state = FinWait1
        /\ Len(out) = 1
        /\ out[1].fin

\* C8 amended: in that case the state passes through Estab within the call;
\* if the device takes the FIN segment the state ends in FinWait1 and
\* exactly one segment, carrying FIN, was transmitted; if the device's send
\* fails, on_packet returns the error, the state stays Estab and nothing was
\* transmitted.
C8_HandshakeAckCloses ==
    C8_Case =>
        IF exit = ExitIoError
        THEN /\ PathStates = <<SynRcvd, Estab>>
             /\ state = Estab
             /\ out = <<>>
        ELSE /\ exit = ExitOk
             /\ PathStates = <<SynRcvd, Estab, FinWait1>>
             /\ state = FinWait1
             /\ Len(out) = 1
             /\ out[1].fin

\* C8 witness: the case happened and the call returned Ok(()).
C8_Witness ==
    /\ C8_Case
    /\ exit = ExitOk
    /\ state = FinWait1

\* C9: at every FinWait1 -> FinWait2 transition send.una is circularly past
\* the sequence number of the transmitted FIN: send.una = send.nxt at that
\* moment.
C9_FinWait2OnlyWhenFinAcked ==
    \A i \in 2 .. Len(path) :
        (path[i - 1].state = FinWait1 /\ path[i].state = FinWait2) =>
            path[i].una = path[i].nxt

\* The order of the states.
Rank(s) ==
    CASE s = NoConnection -> 0
      [] s = SynRcvd -> 1
      [] s = Estab -> 2
      [] s = FinWait1 -> 3
      [] s = FinWait2 -> 4
      [] s = TimeWait -> 5

\* C10: over on_packet calls the state only moves forward in the order
\* SynRcvd, Estab, FinWait1, FinWait2, except for FinWait2 -> FinWait1;
\* SynRcvd and Estab are never re-entered once left.
C10_ForwardOnly ==
    op = "on_packet" =>
        /\ path[1].state = pre.state
        /\ path[Len(path)].state = state
        /\ \A i \in 2 .. Len(path) :
              \/ Rank(path[i - 1].state) < Rank(path[i].state)
              \/ (path[i - 1].state = FinWait2 /\ path[i].state = FinWait1)

\* C10 witness: one on_packet call went FinWait1 -> FinWait2 -> FinWait1.
C10_Witness ==
    /\ op = "on_packet"
    /\ PathStates = <<FinWait1, FinWait2, FinWait1>>

\* The segments the last call composed, in order: those the device took,
\* then the one it refused (a refused send ends the call).
Composed == out \o lost

\* send.nxt when the last call composed its first segment: accept builds
\* the connection with iss + 1, the other calls start from the connection.
NxtAtFirstWrite == IF op = "accept" THEN iss + 1 ELSE pre.send.nxt

\* send.nxt immediately before the k-th segment of the last call was
\* composed: the start value plus what the earlier segments consumed.
NxtBefore(k) ==
    (NxtAtFirstWrite + seq_space_of(SubSeq(Composed, 1, k - 1))) % SeqSpace

\* C11: every segment the engine transmits (from accept, on_packet or
\* send_rst) carries as sequence number the value send.nxt had immediately
\* before that transmission and as acknowledgment number the current
\* recv.nxt.
C11_SegmentsStampedFromSeqSpace ==
    \A k \in 1 .. Len(out) :
        /\ out[k].seq = NxtBefore(k)
        /\ out[k].ack = recv.nxt

\* C11 witness: an on_packet call that moved recv.nxt transmitted two
\* segments.
C11_Witness ==
    /\ op = "on_packet"
    /\ Len(out) = 2
    /\ recv.nxt # pre.recv.nxt

\* The accounting of write over the segments the last call composed:
\* send.nxt advanced by the payload bytes plus one per SYN and per FIN of
\* every composed segment, and both flags are clear afterwards.
WriteAccounting ==
    (state # NoConnection /\ Composed # <<>>) =>
        /\ send.nxt = (NxtAtFirstWrite + seq_space_of(Composed)) % SeqSpace
        /\ ~tcp.syn
        /\ ~tcp.fin

\* A flag set once is not composed again: on_packet and send_rst never
\* set SYN, send_rst never sets FIN, and successive segments of a call start
\* where the previous one ended.
FlagsNotRepeated ==
    /\ op \in {"on_packet", "send_rst"} =>
          \A k \in 1 .. Len(Composed) : ~Composed[k].syn
    /\ op = "send_rst" =>
          \A k \in 1 .. Len(Composed) : ~Composed[k].fin
    /\ \A k \in 1 .. Len(Composed) : Composed[k].seq = NxtBefore(k)

\* C12 as stated: each transmission advances send.nxt by the payload bytes
\* plus one for SYN plus one for FIN and clears both flags, so a SYN or FIN
\* set once is carried by exactly one transmitted segment: no segment
\* carrying SYN or FIN is composed without being transmitted.
C12_FlagOnExactlyOneTransmitted ==
    /\ WriteAccounting
    /\ FlagsNotRepeated
    /\ \A k \in 1 .. Len(lost) : ~lost[k].syn /\ ~lost[k].fin

\* C12 amended: each call of write advances send.nxt by the payload bytes
\* plus one for SYN plus one for FIN and clears both flags, whether or not
\* the device takes the segment; a SYN or FIN set once consumes exactly one
\* sequence number and is carried by at most one transmitted segment (by
\* none when the device's send fails).
C12_FlagOnAtMostOneTransmitted ==
    /\ WriteAccounting
    /\ FlagsNotRepeated

\* C12 witness: after the SYN and a FIN were transmitted, send_rst
\* transmitted a segment from FinWait1.
C12_Witness ==
    /\ op = "send_rst"
    /\ pre.state = FinWait1
    /\ Len(out) = 1
    /\ sent >= 2

\* C13: send_rst transmits one segment with the RST flag set whose sequence
\* number and acknowledgment number are both zero.
C13_RstNumbersZero ==
    (op = "send_rst" /\ exit = ExitOk) =>
        /\ Len(out) = 1
        /\ out[1].rst
        /\ out[1].seq = 0
        /\ out[1].ack = 0

SynSeq == iss + 1

\* C15: whenever on_packet moves a connection from SynRcvd to Estab, the
\* segment's acknowledgment number is circularly past the sequence number
\* carried by the SYN+ACK (and not past send.nxt).
C15_EstabOnlyWhenSynAcked ==
    (/\ op = "on_packet"
     /\ pre.state = SynRcvd
     /\ Len(path) >= 2
     /\ path[2].state = Estab) =>
        InOpenCircular(SynSeq, seg.ackn, (pre.send.nxt + 1) % SeqSpace)

\* C16: the peer-FIN handling step is only ever evaluated in FinWait2: the
\* unreachable!() branch is never executed.
C16_UnreachableNeverExecuted ==
    exit # ExitUnreachable

\* The last call reached the peer-FIN step with a FIN-bearing segment while
\* the state was FinWait2 (a failed send in Estab ends the call earlier and
\* leaves the state Estab).
C17_Case ==
    /\ op = "on_packet"
    /\ seg.fin
    /\ \/ exit = ExitOk
       \/ exit = ExitIoError /\ state = FinWait2

\* send.nxt as it was when the peer-FIN step of C17_Case started: the value
\* recorded with the FinWait2 entry of the path.
NxtAtPeerFin ==
    IF exit = ExitOk THEN path[Len(path) - 1].nxt ELSE path[Len(path)].nxt

\* C17 as stated: in that case the engine transmits exactly one segment
\* carrying FIN at that step, advancing send.nxt by one, and the resulting
\* state is FinWait1, not TimeWait.
C17_PeerFinSendsFinAlways ==
    C17_Case =>
        /\ state = FinWait1
        /\ out # <<>>
        /\ out[Len(out)].fin
        /\ out[Len(out)].seq = NxtAtPeerFin
        /\ send.nxt = (NxtAtPeerFin + 1) % SeqSpace

\* C17 amended: in that case send.nxt advances by one; if the device takes
\* the segment, exactly one segment carrying FIN was transmitted at that
\* step and the resulting state is FinWait1, not TimeWait; if the device's
\* send fails, on_packet returns the error, the state stays FinWait2 and the
\* FIN segment was not transmitted.
C17_PeerFinSendsFin ==
    C17_Case =>
        /\ send.nxt = (NxtAtPeerFin + 1) % SeqSpace
        /\ IF exit = ExitIoError
           THEN /\ state = FinWait2
                /\ Len(lost) = 1 /\ lost[1].fin
                /\ \A k \in 1 .. Len(out) : out[k].seq # NxtAtPeerFin
           ELSE /\ state = FinWait1
                /\ peer_fin_handled(path)
                /\ out # <<>>
                /\ out[Len(out)].fin
                /\ out[Len(out)].seq = NxtAtPeerFin
                /\ \A k \in 1 .. Len(out) - 1 : out[k].seq # NxtAtPeerFin

\* C17 witness: a connection in FinWait2 received a FIN and the call
\* returned Ok(()).
C17_Witness ==
    /\ C17_Case
    /\ pre.state = FinWait2
    /\ exit = ExitOk

\* C18: TimeWait is unreachable: no sequence of accept, on_packet and
\* send_rst calls ever puts a connection in state TimeWait.
C18_TimeWaitUnreachable ==
    /\ state # TimeWait
    /\ \A k \in 1 .. Len(path) : path[k].state # TimeWait

\* C18 witness: after the peer's FIN was handled in FinWait2, on_packet and
\* send_rst were called again and returned.
C18_Witness ==
    /\ handled_before
    /\ op = "send_rst"
    /\ exit = ExitOk
    /\ state = FinWait1

\* The last call delivered a segment with payload that passed the
\* acceptance test and the ACK gate while the state was Estab.
C19_Case ==
    /\ op = "on_packet"
    /\ seg.len > 0
    /\ AcceptanceTable(pre.recv, seg)
    /\ \E k \in 1 .. Len(path) : path[k].state = Estab
    /\ InOpenCircular(pre.send.una, seg.ackn, (pre.send.nxt + 1) % SeqSpace)

\* C19: in that case processing aborts (assert!) before any FIN is composed
\* and before the state becomes FinWait1; it is not returned as an error.
C19_PayloadInEstabIsFatal ==
    C19_Case =>
        /\ exit = ExitAssert
        /\ state = Estab
        /\ Composed = <<>>
        /\ send.nxt = pre.send.nxt
        /\ ~tcp.fin

\* C19 witness: the case happened in the call that also moved SynRcvd to
\* Estab.
C19_Witness ==
    /\ C19_Case
    /\ pre.state = SynRcvd
    /\ exit = ExitAssert

\* The last call is an on_packet call made after the peer's FIN had been
\* handled in FinWait2 and the state set back to FinWait1.
C20_Case ==
    /\ op = "on_packet"
    /\ handled_before

\* C20 as stated: once the peer's FIN has been handled, the connection
\* stays in FinWait1 forever: no later on_packet call changes the state or
\* transmits anything.
C20_StuckInFinWait1Forever ==
    C20_Case =>
        /\ PathStates = <<FinWait1>>
        /\ state = FinWait1
        /\ Composed = <<>>

\* C20 amended: once the peer's FIN has been handled, the connection stays
\* in FinWait1 and on_packet transmits nothing for as long as send.nxt has
\* not wrapped around the sequence space.
C20_StuckInFinWait1 ==
    (C20_Case /\ ~wrapped) =>
        /\ PathStates = <<FinWait1>>
        /\ state = FinWait1
        /\ Composed = <<>>

\* C20 witness: after the peer's FIN was handled, a segment passed the ACK
\* gate (send.una moved) and the call returned Ok(()) in FinWait1.
C20_Witness ==
    /\ C20_Case
    /\ ~wrapped
    /\ exit = ExitOk
    /\ send.una # pre.send.una
    /\ state = FinWait1

====
